---- MODULE Spec2Model ----
(***************************************************************************)
(* Model of src/src/dm.c: the dm-verity device controller of rauc.        *)
(* setup_dm_verity and remove_dm_verity are modelled statement group by   *)
(* statement group (one action per host interaction), the device-mapper   *)
(* host is modelled as one slot, because every device is created under    *)
(* the fixed name "rauc-verity-bundle".                                    *)
(***************************************************************************)
EXTENDS Integers, Sequences, FiniteSets, TLC

\* ---------------------------------------------------------------- bounds
MaxHolders == 1          \* other users that may hold the device node open
MaxMinor == 1            \* minors the host may hand out: 0..MaxMinor

\* ------------------------------------------------------- program constants
BLOCK_SIZE == 4096       \* data and hash block size
PARAMS_SIZE == 1024      \* sizeof(setup.params)

NULL == <<>>               \* the null pointer; a string is a non-empty tuple
NoErr == "none"
DM_READONLY_FLAG == "DM_READONLY_FLAG"
DM_DEFERRED_REMOVE == "DM_DEFERRED_REMOVE"
NoFlags == "0"
DM_NAME == <<"rauc-verity-bundle", 18>>

Minors == 0..MaxMinor

\* status strings a status query may return, as character sequences
StatusV == <<"V">>
StatusSet == {<<"V">>, <<"C">>, <<>>, <<"V", " ">>}

\* input domains of the RaucDMVerity fields; a caller-supplied string is
\* the pair <<text, length>>
Uuids == {NULL, <<"uuid-A", 36>>}
LowerDevs == {NULL, <<"/dev/loop0", 10>>, <<"/dev/long", 450>>}
DataSizes == {0, 2048, 4096, 40960}
RootDigests == {NULL, <<"digest", 64>>}
Salts == {NULL, <<"salt", 32>>, <<"salt+", 33>>}

VARIABLES
  dm_verity,   \* the RaucDMVerity object the current call works on
  self,        \* which object that is
  objs,        \* the caller's objects; objs[self] is held in dm_verity
  host,        \* the device-mapper slot named "rauc-verity-bundle"
  pc,          \* position of the running call, "idle" between calls
  dmfd,        \* control handle of the running call, -1 when not open
  checkfd,     \* probe handle of the running call, -1 when not open
  params,      \* setup.params: the table parameters, then the status
  deferred,    \* argument of the running remove_dm_verity
  res,         \* the result variable / returned value
  err,         \* the GError set by the call
  log,         \* host interactions of the current (or just returned) call
  curOp,       \* the call that is running or has just returned
  entry,       \* dm_verity and host as they were when the call was entered
  prev         \* summary of the call that returned right before this one

vars == <<dm_verity, self, objs, host, pc, dmfd, checkfd, params, deferred,
          res, err, log, curOp, entry, prev>>

\* the current value of the caller's object d
Obj(d) == IF d = self THEN dm_verity ELSE objs[d]

\* ------------------------------------------------------------ host slot
\* (owner records which caller object created the device; the host does
\* not use it)
AbsentHost == [state |-> "absent", uuid |-> NULL, minor |-> 0,
               status |-> <<>>, open |-> 0, deferred |-> FALSE,
               owner |-> "none"]

Registered(h) == h.state # "absent"

\* closing one reference to the device node; a pending deferred removal
\* takes effect when the last reference goes away
DevClose(h) ==
  IF h.open = 1 /\ h.deferred THEN AbsentHost
  ELSE [h EXCEPT !.open = h.open - 1]

\* the device a request header addresses: by uuid when the header has one,
\* by name otherwise
Addressed(h, hdr) ==
  /\ Registered(h)
  /\ IF hdr.uuid # NULL THEN h.uuid = hdr.uuid ELSE hdr.name = DM_NAME

\* possible outcomes <<ok, host'>> of a DM_DEV_REMOVE request
DevRemove(h, hdr) ==
  IF ~Addressed(h, hdr) THEN {<<FALSE, h>>}
  ELSE IF h.open > 0
       THEN IF hdr.flags = DM_DEFERRED_REMOVE
            THEN {<<TRUE, [h EXCEPT !.deferred = TRUE]>>, <<FALSE, h>>}
            ELSE {<<FALSE, h>>}
       ELSE {<<TRUE, AbsentHost>>, <<FALSE, h>>}

\* --------------------------------------------------------------- helpers
Ev(op, ok, flags) == [op |-> op, ok |-> ok, flags |-> flags]

\* variant that addresses the device by the fixed name instead of the uuid
dm_set_header_by_name(flags, uuid) ==
  [flags |-> flags, uuid |-> NULL, name |-> DM_NAME]

\* dm_set_header: the header is zeroed, then carries the flags and the uuid
dm_set_header(flags, uuid) == [flags |-> flags, uuid |-> uuid, name |-> NULL]

\* g_strdup_printf("/dev/dm-%u", minor(dev))
DevNode(minor) == <<"/dev/dm-", minor>>

\* variant comparing only the first Len(b) characters, as strncmp would
StrEqPrefix(a, b) ==
  /\ Len(a) >= Len(b)
  /\ \A i \in 1..Len(b) : a[i] = b[i]

\* g_strcmp0(a, b) == 0 for two character sequences
StrEq(a, b) ==
  /\ Len(a) = Len(b)
  /\ \A i \in 1..Len(a) : a[i] = b[i]

\* strlen of a caller-supplied string
StrLen(s) == s[2]

RECURSIVE Digits(_)
Digits(n) == IF n < 10 THEN 1 ELSE 1 + Digits(n \div 10)

\* length g_snprintf would produce for
\* "1 %s %s 4096 4096 %u %u sha256 %s %s"
ParamLen(d) ==
  2 + StrLen(d.lower_dev) + 1 + StrLen(d.lower_dev) + 11
    + Digits(d.data_size \div BLOCK_SIZE) + 1
    + Digits(d.data_size \div BLOCK_SIZE) + 8
    + StrLen(d.root_digest) + 1 + StrLen(d.salt)

\* a number printed with %u, as <<value, length>>
Num(n) == <<n, Digits(n)>>

\* the string g_snprintf formats, as the sequence of its space-separated
\* tokens, each <<text, length>>
FormatParams(d) ==
  << <<"1", 1>>, d.lower_dev, d.lower_dev,
     Num(4096), Num(4096),
     Num(d.data_size \div 4096), Num(d.data_size \div 4096),
     <<"sha256", 6>>, d.root_digest, d.salt >>

\* variant of the fit test that lets a string of sizeof(params) characters
\* through
OverflowsOffByOne(n) == n > PARAMS_SIZE

\* g_snprintf(...) >= (gint)sizeof(setup.params)
Overflows(n) == n >= PARAMS_SIZE

\* variants of the flag choice: never deferred, always deferred
RemoveFlagsNever(d) == NoFlags

RemoveFlagsAlways(d) == DM_DEFERRED_REMOVE

\* deferred ? DM_DEFERRED_REMOVE : 0
RemoveFlags(d) == IF d THEN DM_DEFERRED_REMOVE ELSE NoFlags

\* the message each failing step of setup_dm_verity passes to g_set_error
ErrMsg(op) ==
  CASE op = "open_control" -> "Failed to open /dev/mapper/control"
    [] op = "DM_DEV_CREATE" -> "Failed to create dm device"
    [] op = "snprintf" -> "Failed to generate dm parameter string"
    [] op = "DM_TABLE_LOAD" -> "Failed to load dm table"
    [] op = "DM_DEV_SUSPEND" -> "Failed to resume dm device"
    [] op = "open_upper" -> "Failed to open upper_dev"
    [] op = "read_upper" -> "Check read from dm-verity device failed"
    [] op = "DM_TABLE_STATUS" -> "Failed to query dm device status"
    [] op = "status_check" -> "Unexpected dm-verity status"

\* variants of the jump table: a create failure that also rolls back, a
\* formatting failure and a table-load failure that skip the rollback
FailLabelCreateRollsBack(op) ==
  IF op = "open_control" THEN "s_out" ELSE "s_out_remove_dm"

FailLabelFormatSkipsRollback(op) ==
  IF op \in {"open_control", "DM_DEV_CREATE", "snprintf"} THEN "s_out"
  ELSE "s_out_remove_dm"

FailLabelLoadSkipsRollback(op) ==
  IF op \in {"open_control", "DM_DEV_CREATE", "DM_TABLE_LOAD"} THEN "s_out"
  ELSE "s_out_remove_dm"

\* variants of the jump table: a failed probe read that falls through to
\* the status query, a failed table load that is tried again
FailLabelReadContinues(op) ==
  IF op \in {"open_control", "DM_DEV_CREATE"} THEN "s_out"
  ELSE IF op = "read_upper" THEN "s_status"
  ELSE "s_out_remove_dm"

FailLabelRetriesLoad(op) ==
  IF op \in {"open_control", "DM_DEV_CREATE"} THEN "s_out"
  ELSE IF op = "DM_TABLE_LOAD" THEN "s_load"
  ELSE "s_out_remove_dm"

\* the label each failing step of setup_dm_verity jumps to
FailLabel(op) ==
  IF op \in {"open_control", "DM_DEV_CREATE"} THEN "s_out"
  ELSE "s_out_remove_dm"

\* variant without the block-alignment check of data_size
FieldsValidNoAlign(d) ==
  /\ d.uuid # NULL
  /\ d.lower_dev # NULL
  /\ d.data_size > 0
  /\ d.root_digest # NULL
  /\ d.salt # NULL

\* the g_return_val_if_fail checks shared by both calls
FieldsValid(d) ==
  /\ d.uuid # NULL
  /\ d.lower_dev # NULL
  /\ d.data_size > 0 /\ d.data_size % BLOCK_SIZE = 0
  /\ d.root_digest # NULL
  /\ d.salt # NULL

\* what is remembered of a call once the next one is entered
Summary == [op |-> curOp, self |-> self, res |-> res,
            removeFailed |-> \E i \in DOMAIN log :
                               log[i].op = "DM_DEV_REMOVE" /\ ~log[i].ok,
            registered |-> entry.host.state # "absent",
            errorSet |-> entry.errorSet]
NoPrev == [op |-> "none", self |-> "A", res |-> FALSE,
           removeFailed |-> FALSE, registered |-> FALSE,
           errorSet |-> FALSE]

\* ------------------------------------------------------------------ Init
\* new_dm_verity: g_malloc0 leaves upper_dev NULL; the caller fills the rest
InitRest ==
  /\ self = "A"
  /\ host = AbsentHost
  /\ pc = "idle"
  /\ dmfd = -1
  /\ checkfd = -1
  /\ params = <<>>
  /\ deferred = FALSE
  /\ res = FALSE
  /\ err = NoErr
  /\ log = <<>>
  /\ curOp = "none"
  /\ entry = [dm_verity |-> dm_verity, host |-> host, errorSet |-> FALSE]
  /\ prev = NoPrev

\* one object, with every combination of field values a caller may supply
Init ==
  /\ dm_verity \in [uuid : Uuids, lower_dev : LowerDevs, upper_dev : {NULL},
                    data_size : DataSizes, root_digest : RootDigests,
                    salt : Salts]
  /\ objs = [d \in {"A"} |-> dm_verity]
  /\ InitRest

\* two objects A and B with valid fields and different uuids
InitAB ==
  /\ objs \in [{"A", "B"} -> [uuid : {<<"uuid-A", 36>>, <<"uuid-B", 36>>},
                              lower_dev : {<<"/dev/loop0", 10>>},
                              upper_dev : {NULL},
                              data_size : {4096},
                              root_digest : {<<"digest", 64>>},
                              salt : {<<"salt", 32>>}]]
  /\ objs["A"].uuid = <<"uuid-A", 36>>
  /\ objs["B"].uuid = <<"uuid-B", 36>>
  /\ dm_verity = objs["A"]
  /\ InitRest

\* ------------------------------------------------------- setup_dm_verity
\* entry: locals initialised, preconditions checked
setup_enter ==
  /\ pc = "idle"
  /\ \E dev \in DOMAIN objs, errorSet \in BOOLEAN :
       /\ self' = dev
       /\ dm_verity' = Obj(dev)
       /\ objs' = IF dev = self THEN objs ELSE [objs EXCEPT ![self] = dm_verity]
       /\ curOp' = "setup"
       /\ prev' = Summary
       /\ entry' = [dm_verity |-> Obj(dev), host |-> host,
                  errorSet |-> errorSet]
       /\ res' = FALSE
       /\ err' = NoErr
       /\ log' = <<>>
       /\ dmfd' = -1
       /\ checkfd' = -1
       /\ params' = <<>>
       /\ pc' = IF /\ FieldsValid(Obj(dev))
                   /\ Obj(dev).upper_dev = NULL
                   /\ ~errorSet
                THEN "s_open" ELSE "idle"
  /\ UNCHANGED <<host, deferred>>

\* open("/dev/mapper/control")
setup_open_control ==
  /\ pc = "s_open"
  /\ \E ok \in BOOLEAN :
       /\ log' = Append(log, Ev("open_control", ok, NoFlags))
       /\ IF ok
          THEN /\ dmfd' = 3
               /\ pc' = "s_create"
               /\ UNCHANGED <<res, err>>
          ELSE /\ dmfd' = -1
               /\ err' = ErrMsg("open_control")
               /\ res' = FALSE
               /\ pc' = FailLabel("open_control")
  /\ UNCHANGED <<dm_verity, host, checkfd, params, deferred, curOp, entry,
               prev, self, objs>>

\* ioctl(DM_DEV_CREATE): the name is fixed, so the slot must be free
setup_create ==
  /\ pc = "s_create"
  /\ LET hdr == [dm_set_header(DM_READONLY_FLAG, dm_verity.uuid)
                   EXCEPT !.name = DM_NAME] IN
     \E ok \in (IF host.state = "absent" THEN BOOLEAN ELSE {FALSE}),
        m \in Minors :
       /\ log' = Append(log, Ev("DM_DEV_CREATE", ok, hdr.flags))
       /\ IF ok
          THEN /\ host' = [AbsentHost EXCEPT !.state = "created",
                                             !.uuid = hdr.uuid,
                                             !.owner = self,
                                             !.minor = m]
               /\ pc' = "s_format"
               /\ UNCHANGED <<res, err>>
          ELSE /\ err' = ErrMsg("DM_DEV_CREATE")
               /\ res' = FALSE
               /\ pc' = FailLabel("DM_DEV_CREATE")
               /\ UNCHANGED host
  /\ UNCHANGED <<dm_verity, dmfd, checkfd, params, deferred, curOp, entry,
               prev, self, objs>>

\* g_snprintf of the target parameters into setup.params
setup_format ==
  /\ pc = "s_format"
  /\ IF Overflows(ParamLen(dm_verity))
     THEN /\ params' = <<"truncated">>
          /\ err' = ErrMsg("snprintf")
          /\ res' = FALSE
          /\ log' = Append(log, Ev("snprintf", FALSE, NoFlags))
          /\ pc' = FailLabel("snprintf")
     ELSE /\ params' = FormatParams(dm_verity)
          /\ log' = Append(log, Ev("snprintf", TRUE, NoFlags))
          /\ pc' = "s_load"
          /\ UNCHANGED <<res, err>>
  /\ UNCHANGED <<dm_verity, host, dmfd, checkfd, deferred, curOp, entry,
               prev, self, objs>>

\* ioctl(DM_TABLE_LOAD)
setup_table_load ==
  /\ pc = "s_load"
  /\ LET hdr == dm_set_header(DM_READONLY_FLAG, dm_verity.uuid) IN
     \E ok \in (IF Addressed(host, hdr)
                THEN BOOLEAN ELSE {FALSE}) :
       /\ log' = Append(log, Ev("DM_TABLE_LOAD", ok, hdr.flags))
       /\ IF ok
          THEN /\ host' = [host EXCEPT !.state = "loaded"]
               /\ pc' = "s_resume"
               /\ UNCHANGED <<res, err>>
          ELSE /\ err' = ErrMsg("DM_TABLE_LOAD")
               /\ res' = FALSE
               /\ pc' = FailLabel("DM_TABLE_LOAD")
               /\ UNCHANGED host
  /\ UNCHANGED <<dm_verity, dmfd, checkfd, params, deferred, curOp, entry,
               prev, self, objs>>

\* ioctl(DM_DEV_SUSPEND) without the suspend flag resumes the device; the
\* response header carries the device number, from which upper_dev is made
setup_resume ==
  /\ pc = "s_resume"
  /\ LET hdr == dm_set_header(NoFlags, dm_verity.uuid) IN
     \E ok \in (IF host.state = "loaded" /\ Addressed(host, hdr)
                THEN BOOLEAN ELSE {FALSE}),
        st \in StatusSet :
       /\ log' = Append(log, Ev("DM_DEV_SUSPEND", ok, hdr.flags))
       /\ IF ok
          THEN /\ host' = [host EXCEPT !.state = "active", !.status = st]
               /\ dm_verity' = [dm_verity EXCEPT
                                  !.upper_dev = DevNode(host.minor)]
               /\ pc' = "s_probe_open"
               /\ UNCHANGED <<res, err>>
          ELSE /\ err' = ErrMsg("DM_DEV_SUSPEND")
               /\ res' = FALSE
               /\ pc' = FailLabel("DM_DEV_SUSPEND")
               /\ UNCHANGED <<host, dm_verity>>
  /\ UNCHANGED <<dmfd, checkfd, params, deferred, curOp, entry, prev, self,
               objs>>

\* g_open(upper_dev, O_RDONLY)
setup_probe_open ==
  /\ pc = "s_probe_open"
  /\ \E ok \in (IF host.state = "active"
                   /\ dm_verity.upper_dev = <<"/dev/dm-", host.minor>>
                THEN BOOLEAN ELSE {FALSE}) :
       /\ log' = Append(log, Ev("open_upper", ok, NoFlags))
       /\ IF ok
          THEN /\ checkfd' = 4
               /\ host' = [host EXCEPT !.open = host.open + 1]
               /\ pc' = "s_probe_read"
               /\ UNCHANGED <<res, err>>
          ELSE /\ checkfd' = -1
               /\ err' = ErrMsg("open_upper")
               /\ res' = FALSE
               /\ pc' = FailLabel("open_upper")
               /\ UNCHANGED host
  /\ UNCHANGED <<dm_verity, dmfd, params, deferred, curOp, entry, prev,
               self, objs>>

\* read(checkfd, checkbuf, 1): fails on an I/O or verification error
setup_probe_read ==
  /\ pc = "s_probe_read"
  /\ \E ok \in BOOLEAN :
       /\ log' = Append(log, Ev("read_upper", ok, NoFlags))
       /\ IF ok
          THEN /\ pc' = "s_status"
               /\ UNCHANGED <<res, err>>
          ELSE /\ err' = ErrMsg("read_upper")
               /\ res' = FALSE
               /\ pc' = FailLabel("read_upper")
  /\ UNCHANGED <<dm_verity, host, dmfd, checkfd, params, deferred, curOp,
               entry, prev, self, objs>>

\* ioctl(DM_TABLE_STATUS): the host writes the status into setup.params
setup_status ==
  /\ pc = "s_status"
  /\ LET hdr == dm_set_header(NoFlags, dm_verity.uuid) IN
     \E ok \in (IF Addressed(host, hdr)
                THEN BOOLEAN ELSE {FALSE}) :
       /\ log' = Append(log, Ev("DM_TABLE_STATUS", ok, hdr.flags))
       /\ IF ok
          THEN /\ params' = host.status
               /\ pc' = "s_status_check"
               /\ UNCHANGED <<res, err>>
          ELSE /\ err' = ErrMsg("DM_TABLE_STATUS")
               /\ res' = FALSE
               /\ pc' = FailLabel("DM_TABLE_STATUS")
               /\ UNCHANGED params
  /\ UNCHANGED <<dm_verity, host, dmfd, checkfd, deferred, curOp, entry,
               prev, self, objs>>

\* g_strcmp0(setup.params, "V") and the success exit
setup_status_check ==
  /\ pc = "s_status_check"
  /\ IF ~StrEq(params, StatusV)
     THEN /\ err' = ErrMsg("status_check")
          /\ res' = FALSE
          /\ log' = Append(log, Ev("status_check", FALSE, NoFlags))
          /\ pc' = FailLabel("status_check")
     ELSE /\ res' = TRUE
          /\ log' = Append(log, Ev("status_check", TRUE, NoFlags))
          /\ pc' = "s_out"
          /\ UNCHANGED err
  /\ UNCHANGED <<dm_verity, host, dmfd, checkfd, params, deferred, curOp,
               entry, prev, self, objs>>

\* variant of out_remove_dm that issues the Remove request before closing
\* the probe handle
setup_out_remove_dm_remove_first ==
  /\ pc = "s_out_remove_dm"
  /\ LET hdr == dm_set_header(NoFlags, dm_verity.uuid)
     IN \E o \in DevRemove(host, hdr) :
          LET l1 == Append(log, Ev("DM_DEV_REMOVE", o[1], hdr.flags))
          IN /\ host' = IF checkfd >= 0 THEN DevClose(o[2]) ELSE o[2]
             /\ log' = IF checkfd >= 0
                       THEN Append(l1, Ev("close_check", TRUE, NoFlags))
                       ELSE l1
  /\ checkfd' = -1
  /\ pc' = "s_out"
  /\ UNCHANGED <<dm_verity, dmfd, params, deferred, res, err, curOp, entry,
               prev, self, objs>>

\* variant of out_remove_dm that reports a failed Remove request as the
\* error of the call
setup_out_remove_dm_escalates ==
  /\ pc = "s_out_remove_dm"
  /\ LET hdr == dm_set_header(NoFlags, dm_verity.uuid)
         h1 == IF checkfd >= 0 THEN DevClose(host) ELSE host
         l1 == IF checkfd >= 0
               THEN Append(log, Ev("close_check", TRUE, NoFlags))
               ELSE log
     IN \E o \in DevRemove(h1, hdr) :
          /\ host' = o[2]
          /\ log' = Append(l1, Ev("DM_DEV_REMOVE", o[1], hdr.flags))
          /\ err' = IF o[1] THEN err ELSE "Failed to remove dm device"
  /\ checkfd' = -1
  /\ pc' = "s_out"
  /\ UNCHANGED <<dm_verity, dmfd, params, deferred, res, curOp, entry,
               prev, self, objs>>

\* out_remove_dm: close the probe handle, then ioctl(DM_DEV_REMOVE); a
\* failure of the request is only logged
setup_out_remove_dm ==
  /\ pc = "s_out_remove_dm"
  /\ LET hdr == dm_set_header(NoFlags, dm_verity.uuid)
         h1 == IF checkfd >= 0 THEN DevClose(host) ELSE host
         l1 == IF checkfd >= 0
               THEN Append(log, Ev("close_check", TRUE, NoFlags))
               ELSE log
     IN \E o \in DevRemove(h1, hdr) :
          /\ host' = o[2]
          /\ log' = Append(l1, Ev("DM_DEV_REMOVE", o[1], hdr.flags))
  /\ checkfd' = -1
  /\ pc' = "s_out"
  /\ UNCHANGED <<dm_verity, dmfd, params, deferred, res, err, curOp, entry,
               prev, self, objs>>

\* variant of the out label that also clears upper_dev
setup_out_clears ==
  /\ pc = "s_out"
  /\ LET l1 == IF checkfd >= 0
               THEN Append(log, Ev("close_check", TRUE, NoFlags))
               ELSE log
     IN log' = IF dmfd >= 0
               THEN Append(l1, Ev("close_control", TRUE, NoFlags))
               ELSE l1
  /\ host' = IF checkfd >= 0 THEN DevClose(host) ELSE host
  /\ dm_verity' = [dm_verity EXCEPT !.upper_dev = NULL]
  /\ checkfd' = -1
  /\ dmfd' = -1
  /\ pc' = "idle"
  /\ UNCHANGED <<params, deferred, res, err, curOp, entry, prev, self, objs>>

\* variant of the out label that leaves the probe handle open
setup_out_leaks_check ==
  /\ pc = "s_out"
  /\ log' = IF dmfd >= 0
            THEN Append(log, Ev("close_control", TRUE, NoFlags))
            ELSE log
  /\ checkfd' = -1
  /\ dmfd' = -1
  /\ pc' = "idle"
  /\ UNCHANGED <<dm_verity, host, params, deferred, res, err, curOp, entry,
               prev, self, objs>>

\* out: close what is still open and return res
setup_out ==
  /\ pc = "s_out"
  /\ LET l1 == IF checkfd >= 0
               THEN Append(log, Ev("close_check", TRUE, NoFlags))
               ELSE log
     IN log' = IF dmfd >= 0
               THEN Append(l1, Ev("close_control", TRUE, NoFlags))
               ELSE l1
  /\ host' = IF checkfd >= 0 THEN DevClose(host) ELSE host
  /\ checkfd' = -1
  /\ dmfd' = -1
  /\ pc' = "idle"
  /\ UNCHANGED <<dm_verity, params, deferred, res, err, curOp, entry, prev,
               self, objs>>

\* ------------------------------------------------------ remove_dm_verity
remove_enter ==
  /\ pc = "idle"
  /\ \E dev \in DOMAIN objs, d \in BOOLEAN, errorSet \in BOOLEAN :
       /\ self' = dev
       /\ dm_verity' = Obj(dev)
       /\ objs' = IF dev = self THEN objs ELSE [objs EXCEPT ![self] = dm_verity]
       /\ deferred' = d
       /\ curOp' = "remove"
       /\ prev' = Summary
       /\ entry' = [dm_verity |-> Obj(dev), host |-> host,
                  errorSet |-> errorSet]
       /\ res' = FALSE
       /\ err' = NoErr
       /\ log' = <<>>
       /\ dmfd' = -1
       /\ pc' = IF /\ FieldsValid(Obj(dev))
                   /\ Obj(dev).upper_dev # NULL
                   /\ ~errorSet
                THEN "r_open" ELSE "idle"
  /\ UNCHANGED <<host, checkfd, params>>

remove_open_control ==
  /\ pc = "r_open"
  /\ \E ok \in BOOLEAN :
       /\ log' = Append(log, Ev("open_control", ok, NoFlags))
       /\ IF ok
          THEN /\ dmfd' = 3
               /\ pc' = "r_remove"
               /\ UNCHANGED <<res, err>>
          ELSE /\ dmfd' = -1
               /\ err' = "Failed to open /dev/mapper/control"
               /\ res' = FALSE
               /\ pc' = "r_out"
  /\ UNCHANGED <<dm_verity, host, checkfd, params, deferred, curOp, entry,
               prev, self, objs>>

\* variant that clears upper_dev whether or not the request succeeded
remove_ioctl_always_clears ==
  /\ pc = "r_remove"
  /\ LET hdr == dm_set_header(RemoveFlags(deferred), dm_verity.uuid) IN
     \E o \in DevRemove(host, hdr) :
       /\ host' = o[2]
       /\ log' = Append(log, Ev("DM_DEV_REMOVE", o[1], hdr.flags))
       /\ dm_verity' = [dm_verity EXCEPT !.upper_dev = NULL]
       /\ IF o[1]
          THEN /\ res' = TRUE
               /\ UNCHANGED err
          ELSE /\ err' = "Failed to remove dm device"
               /\ res' = FALSE
  /\ pc' = "r_out"
  /\ UNCHANGED <<dmfd, checkfd, params, deferred, curOp, entry, prev, self,
               objs>>

\* ioctl(DM_DEV_REMOVE), immediate or deferred; upper_dev is cleared on
\* success only
remove_ioctl ==
  /\ pc = "r_remove"
  /\ LET hdr == dm_set_header(RemoveFlags(deferred), dm_verity.uuid) IN
     \E o \in DevRemove(host, hdr) :
       /\ host' = o[2]
       /\ log' = Append(log, Ev("DM_DEV_REMOVE", o[1], hdr.flags))
       /\ IF o[1]
          THEN /\ dm_verity' = [dm_verity EXCEPT !.upper_dev = NULL]
               /\ res' = TRUE
               /\ UNCHANGED err
          ELSE /\ err' = "Failed to remove dm device"
               /\ res' = FALSE
               /\ UNCHANGED dm_verity
  /\ pc' = "r_out"
  /\ UNCHANGED <<dmfd, checkfd, params, deferred, curOp, entry, prev, self,
               objs>>

remove_out ==
  /\ pc = "r_out"
  /\ log' = IF dmfd >= 0
            THEN Append(log, Ev("close_control", TRUE, NoFlags))
            ELSE log
  /\ dmfd' = -1
  /\ pc' = "idle"
  /\ UNCHANGED <<dm_verity, host, checkfd, params, deferred, res, err,
               curOp, entry, prev, self, objs>>

\* ----------------------------------------------------------- environment
\* another user (a mount) opens the active device node between calls
ext_open ==
  /\ pc = "idle"
  /\ host.state = "active"
  /\ ~host.deferred
  /\ host.open < MaxHolders
  /\ host' = [host EXCEPT !.open = host.open + 1]
  /\ curOp' = "none"
  /\ UNCHANGED <<dm_verity, pc, dmfd, checkfd, params, deferred, res, err,
               log, entry, prev, self, objs>>

\* that user closes it again
ext_close ==
  /\ pc = "idle"
  /\ host.open > 0
  /\ host' = DevClose(host)
  /\ curOp' = "none"
  /\ UNCHANGED <<dm_verity, pc, dmfd, checkfd, params, deferred, res, err,
               log, entry, prev, self, objs>>

Next ==
  \/ setup_enter
  \/ setup_open_control
  \/ setup_create
  \/ setup_format
  \/ setup_table_load
  \/ setup_resume
  \/ setup_probe_open
  \/ setup_probe_read
  \/ setup_status
  \/ setup_status_check
  \/ setup_out_remove_dm
  \/ setup_out
  \/ remove_enter
  \/ remove_open_control
  \/ remove_ioctl
  \/ remove_out
  \/ ext_open
  \/ ext_close

Spec == Init /\ [][Next]_vars

SpecAB == InitAB /\ [][Next]_vars

TypeOK ==
  /\ pc \in {"idle", "s_open", "s_create", "s_format", "s_load", "s_resume",
             "s_probe_open", "s_probe_read", "s_status", "s_status_check",
             "s_out_remove_dm", "s_out", "r_open", "r_remove", "r_out"}
  /\ dmfd \in {-1, 3}
  /\ checkfd \in {-1, 4}
  /\ host.open \in 0..(MaxHolders + 1)

\* ======================================================================
\* Properties
\* ======================================================================
Count(l, op) == Cardinality({i \in DOMAIN l : l[i].op = op})
Failed(l, op) == \E i \in DOMAIN l : l[i].op = op /\ ~l[i].ok
Succeeded(l, op) == \E i \in DOMAIN l : l[i].op = op /\ l[i].ok

\* the call op has returned and nothing has happened since
Returned(op) == pc = "idle" /\ curOp = op
\* ... and it had passed its precondition checks
ReturnedAccepted(op) == Returned(op) /\ log # <<>>

HostActiveFor(d) == host.state = "active" /\ host.uuid = d.uuid

\* C1: a Setup that passed its checks and returns failure leaves upper_dev
\* NULL, whichever step failed.
C1_FailedSetupLeavesUpperNull ==
  (ReturnedAccepted("setup") /\ ~res) => dm_verity.upper_dev = NULL

\* C2: when Setup returns TRUE, upper_dev is non-NULL and is the device node
\* of the host device that is registered under this uuid.
C2_SuccessSetsUpper ==
  (Returned("setup") /\ res) =>
     /\ dm_verity.upper_dev # NULL
     /\ Registered(host) /\ host.uuid = dm_verity.uuid
     /\ dm_verity.upper_dev = <<"/dev/dm-", host.minor>>

C2_Witness ==
  /\ Returned("setup") /\ res
  /\ dm_verity.upper_dev = <<"/dev/dm-", 1>>

\* C3: between calls, upper_dev is NULL iff no active host device exists
\* for the uuid.
C3_UpperNullIffNotActive ==
  (pc = "idle" /\ FieldsValid(dm_verity)) =>
     ((dm_verity.upper_dev = NULL) <=> ~HostActiveFor(dm_verity))

C3_Witness ==
  /\ Returned("setup") /\ ~res /\ Succeeded(log, "DM_DEV_REMOVE")
  /\ dm_verity.upper_dev # NULL /\ ~Registered(host)

\* the error each step is expected to report (spec section 7 taxonomy, by
\* the text of the report)
StepError(op) ==
  CASE op = "DM_DEV_CREATE" -> "Failed to create dm device"
    [] op = "snprintf" -> "Failed to generate dm parameter string"
    [] op = "DM_TABLE_LOAD" -> "Failed to load dm table"
    [] op = "DM_DEV_SUSPEND" -> "Failed to resume dm device"
    [] op = "open_upper" -> "Failed to open upper_dev"
    [] op = "read_upper" -> "Check read from dm-verity device failed"
    [] op = "DM_TABLE_STATUS" -> "Failed to query dm device status"
    [] op = "status_check" -> "Unexpected dm-verity status"

RollbackSteps == {"DM_TABLE_LOAD", "DM_DEV_SUSPEND", "open_upper",
                  "read_upper", "DM_TABLE_STATUS", "status_check"}

\* C4 as stated: a failure at create, load, activate, probe-open,
\* probe-read or status makes Setup issue exactly one Remove request and
\* return the error of the failed step.
C4_EveryStepRollsBackOnce ==
  ReturnedAccepted("setup") =>
    \A op \in RollbackSteps \cup {"DM_DEV_CREATE"} :
      Failed(log, op) =>
        /\ Count(log, "DM_DEV_REMOVE") = 1
        /\ ~res /\ err = StepError(op)

\* C4 amended: a failure at load, activate, probe-open, probe-read or status
\* makes Setup issue exactly one Remove request, a failure at create makes
\* it issue none, and in each case Setup returns the error of the failed
\* step.
C4_RollbackOnceAfterCreate ==
  ReturnedAccepted("setup") =>
    /\ \A op \in RollbackSteps :
         Failed(log, op) =>
           /\ Count(log, "DM_DEV_REMOVE") = 1
           /\ ~res /\ err = StepError(op)
    /\ Failed(log, "DM_DEV_CREATE") =>
           /\ Count(log, "DM_DEV_REMOVE") = 0
           /\ ~res /\ err = StepError("DM_DEV_CREATE")

C4_Witness ==
  /\ ReturnedAccepted("setup")
  /\ Failed(log, "read_upper")
  /\ Count(log, "DM_DEV_REMOVE") = 1
  /\ err = "Check read from dm-verity device failed"

\* C5: when a call has returned, every handle it opened has been closed
\* exactly once: the control handle and the probe handle of Setup, the
\* control handle of Remove.
C5_HandlesClosedOnce ==
  pc = "idle" =>
    /\ dmfd = -1 /\ checkfd = -1
    /\ Count(log, "close_control") =
         (IF Succeeded(log, "open_control") THEN 1 ELSE 0)
    /\ Count(log, "close_check") =
         (IF Succeeded(log, "open_upper") THEN 1 ELSE 0)

C5_Witness ==
  /\ Returned("setup") /\ ~res
  /\ Succeeded(log, "open_upper")
  /\ Count(log, "close_check") = 1 /\ Count(log, "close_control") = 1

\* C6: Remove clears upper_dev exactly when the host Remove request
\* succeeds; when the control open or the request fails it returns failure
\* with an error and leaves the whole RaucDMVerity unchanged.
C6_RemoveClearsOnSuccessOnly ==
  ReturnedAccepted("remove") =>
    IF Succeeded(log, "DM_DEV_REMOVE")
    THEN res /\ dm_verity.upper_dev = NULL
    ELSE ~res /\ err # NoErr /\ dm_verity = entry.dm_verity

C6_Witness ==
  /\ ReturnedAccepted("remove")
  /\ Failed(log, "DM_DEV_REMOVE")
  /\ dm_verity.upper_dev # NULL /\ ~res

C9_StatusMustBeExactlyV ==
  (Returned("setup") /\ Succeeded(log, "DM_TABLE_STATUS")) =>
    IF params = <<"V">>
    THEN res /\ Count(log, "DM_DEV_REMOVE") = 0
    ELSE ~res /\ Count(log, "DM_DEV_REMOVE") = 1
         /\ err = "Unexpected dm-verity status"

C9_Witness ==
  /\ Returned("setup") /\ Succeeded(log, "DM_TABLE_STATUS")
  /\ params = <<"V", " ">>
  /\ ~res /\ Count(log, "DM_DEV_REMOVE") = 1

\* a field is missing or data_size is zero or not a multiple of 4096
BadInput(d) ==
  \/ d.uuid = NULL \/ d.lower_dev = NULL
  \/ d.root_digest = NULL \/ d.salt = NULL
  \/ d.data_size = 0 \/ d.data_size % 4096 # 0

\* C10: a Setup call with upper_dev set, a Remove call with upper_dev NULL,
\* or either call with a missing field or a bad data_size returns failure
\* without opening the control handle, without any host request and without
\* changing the RaucDMVerity.
C10_RejectedCallsDoNothing ==
  ( \/ curOp = "setup" /\ (BadInput(entry.dm_verity)
                             \/ entry.dm_verity.upper_dev # NULL)
    \/ curOp = "remove" /\ (BadInput(entry.dm_verity)
                              \/ entry.dm_verity.upper_dev = NULL) ) =>
    /\ pc = "idle" /\ ~res
    /\ log = <<>> /\ dmfd = -1
    /\ dm_verity = entry.dm_verity
    /\ host = entry.host

C10_Witness ==
  /\ Returned("setup")
  /\ ~BadInput(entry.dm_verity) /\ entry.dm_verity.upper_dev # NULL
  /\ Registered(host)
  /\ ~res /\ log = <<>>

RECURSIVE SumLen(_)
SumLen(toks) ==
  IF toks = <<>> THEN 0 ELSE Head(toks)[2] + SumLen(Tail(toks))

\* characters of a token sequence once joined by single spaces
JoinedLen(toks) == SumLen(toks) + Len(toks) - 1

\* C11: for data_size = 4096 * N the parameters handed to the table load
\* carry N as data-blocks count and as hash start, and fit in 1023
\* characters; the formatting step fails, with the formatting error and
\* without a table load, exactly when the formatted length is 1024 or more.
C11_ParamsCarryNAndFit ==
  /\ pc = "s_load" =>
       /\ Len(params) = 10
       /\ params[6][1] * 4096 = dm_verity.data_size
       /\ params[7][1] * 4096 = dm_verity.data_size
       /\ JoinedLen(params) <= 1023
       /\ JoinedLen(params) = ParamLen(dm_verity)
  /\ (curOp = "setup" /\ Count(log, "snprintf") = 1) =>
       /\ Failed(log, "snprintf") <=> ParamLen(dm_verity) >= 1024
       /\ Failed(log, "snprintf") =>
            /\ Count(log, "DM_TABLE_LOAD") = 0
            /\ ~res
            /\ err = "Failed to generate dm parameter string"
       /\ (Succeeded(log, "snprintf") /\ pc = "idle") =>
            Count(log, "DM_TABLE_LOAD") = 1

C11_Witness ==
  /\ pc = "s_load"
  /\ ParamLen(dm_verity) = 1023
  /\ dm_verity.data_size = 4096
  /\ params[6][1] = 1 /\ params[7][1] = 1

C11_WitnessOverflow ==
  /\ Returned("setup") /\ Failed(log, "snprintf")
  /\ ParamLen(entry.dm_verity) = 1024

RemoveEvents(l) == {i \in DOMAIN l : l[i].op = "DM_DEV_REMOVE"}

\* C12: Remove(deferred = TRUE) on a Ready device that another user holds
\* open sends the request with the deferred-removal flag; when the host
\* takes the request the call returns success at once with upper_dev
\* cleared while the device stays registered, and a device whose removal is
\* pending goes away when its last open reference is closed.
C12_DeferredRemoveOfHeldDevice ==
  /\ (curOp = "remove" /\ deferred) =>
       \A i \in RemoveEvents(log) : log[i].flags = "DM_DEFERRED_REMOVE"
  /\ ( /\ Returned("remove") /\ deferred
       /\ entry.host.state = "active"
       /\ entry.host.uuid = entry.dm_verity.uuid
       /\ entry.host.open > 0
       /\ Succeeded(log, "DM_DEV_REMOVE") ) =>
       /\ res
       /\ dm_verity.upper_dev = NULL
       /\ host = [entry.host EXCEPT !.deferred = TRUE]
  /\ host.deferred => (Registered(host) /\ host.open > 0)

C12_Witness ==
  /\ Returned("remove") /\ deferred /\ res
  /\ entry.host.state = "active" /\ entry.host.open > 0
  /\ ~entry.host.deferred
  /\ log[2] = [op |-> "DM_DEV_REMOVE", ok |-> TRUE,
               flags |-> "DM_DEFERRED_REMOVE"]
  /\ dm_verity.upper_dev = NULL
  /\ host.state = "active" /\ host.deferred

\* C20: the Remove request of a Setup rollback never carries the
\* deferred-removal flag; the flag is sent only by remove_dm_verity, in its
\* Remove request, and only when its deferred argument is TRUE.
C20_DeferredFlagOnlyFromDeferredRemove ==
  /\ curOp = "setup" =>
       /\ \A i \in DOMAIN log : log[i].flags # "DM_DEFERRED_REMOVE"
       /\ \A i \in RemoveEvents(log) : log[i].flags = "0"
  /\ curOp = "remove" =>
       \A i \in DOMAIN log :
         log[i].flags = "DM_DEFERRED_REMOVE" =>
           (deferred /\ log[i].op = "DM_DEV_REMOVE")

C20_Witness ==
  /\ Returned("setup") /\ ~res
  /\ Failed(log, "DM_TABLE_STATUS")
  /\ \E i \in RemoveEvents(log) : log[i].flags = "0"

\* the value of the caller's object d after a step
ObjNext(d) == IF d = self' THEN dm_verity' ELSE objs'[d]

\* C13: no step changes uuid, lower_dev, data_size, root_digest or salt of
\* any object, and upper_dev changes only when Setup sets it (from NULL)
\* or Remove clears it, on the object the call was made on.
C13_OnlyUpperDevChanges ==
  [][ \A d \in DOMAIN objs :
        /\ ObjNext(d).uuid = Obj(d).uuid
        /\ ObjNext(d).lower_dev = Obj(d).lower_dev
        /\ ObjNext(d).data_size = Obj(d).data_size
        /\ ObjNext(d).root_digest = Obj(d).root_digest
        /\ ObjNext(d).salt = Obj(d).salt
        /\ ObjNext(d).upper_dev # Obj(d).upper_dev =>
             /\ d = self
             /\ \/ /\ curOp = "setup"
                   /\ Obj(d).upper_dev = NULL
                   /\ ObjNext(d).upper_dev # NULL
                \/ /\ curOp = "remove"
                   /\ ObjNext(d).upper_dev = NULL ]_vars

C13_Witness ==
  /\ Returned("remove") /\ res
  /\ prev.op = "setup" /\ prev.res
  /\ entry.dm_verity.upper_dev # NULL
  /\ dm_verity = [entry.dm_verity EXCEPT !.upper_dev = NULL]

\* C14: when the control handle cannot be opened Setup issues no host
\* request at all, and when the Create request fails it issues no Remove
\* and no other host request; in both cases it reports the failure and
\* stops.
C14_NothingToRollBack ==
  Returned("setup") =>
    /\ Failed(log, "open_control") =>
         /\ log = <<[op |-> "open_control", ok |-> FALSE, flags |-> "0"]>>
         /\ ~res /\ err = "Failed to open /dev/mapper/control"
         /\ host = entry.host
    /\ Failed(log, "DM_DEV_CREATE") =>
         /\ Len(log) = 3
         /\ log[1].op = "open_control" /\ log[1].ok
         /\ log[2].op = "DM_DEV_CREATE"
         /\ log[3].op = "close_control"
         /\ ~res /\ err = "Failed to create dm device"
         /\ host = entry.host

C14_Witness ==
  /\ Returned("setup") /\ Failed(log, "DM_DEV_CREATE")
  /\ Count(log, "DM_DEV_REMOVE") = 0
  /\ ~Registered(host)

\* the steps of Setup in program order
StepOrder == <<"open_control", "DM_DEV_CREATE", "snprintf", "DM_TABLE_LOAD",
               "DM_DEV_SUSPEND", "open_upper", "read_upper",
               "DM_TABLE_STATUS", "status_check">>

IsForward(e) == e.op \notin {"DM_DEV_REMOVE", "close_check", "close_control"}

\* C15: Setup issues Create, Load Table, Activate, Probe-Read and
\* Status-Check in that order, each only after every earlier step has
\* succeeded, and returns success only after all have succeeded, with no
\* Remove issued.
C15_FixedOrder ==
  curOp = "setup" =>
    LET f == SelectSeq(log, IsForward) IN
      /\ Len(f) <= Len(StepOrder)
      /\ \A i \in 1..Len(f) :
           /\ f[i].op = StepOrder[i]
           /\ i < Len(f) => f[i].ok
      /\ res =>
           /\ Len(f) = Len(StepOrder)
           /\ \A i \in 1..Len(f) : f[i].ok
           /\ Count(log, "DM_DEV_REMOVE") = 0

C15_Witness ==
  /\ Returned("setup") /\ res
  /\ Len(SelectSeq(log, IsForward)) = 9
  /\ Count(log, "DM_DEV_REMOVE") = 0

\* C16: within one Setup call every host call is issued at most once and no
\* forward step follows a failed one; within one Remove call exactly one
\* Remove request is issued when the control handle opens, none otherwise.
C16_NoRetries ==
  /\ curOp = "setup" =>
       /\ \A i, j \in DOMAIN log :
            (i # j /\ log[i].op = log[j].op) => FALSE
       /\ \A i, j \in DOMAIN log :
            (i < j /\ IsForward(log[i]) /\ ~log[i].ok) => ~IsForward(log[j])
  /\ curOp = "remove" =>
       /\ Count(log, "DM_DEV_REMOVE") <= 1
       /\ Count(log, "open_control") <= 1
       /\ Count(log, "DM_DEV_REMOVE") = 1 => Succeeded(log, "open_control")
  /\ Returned("remove") =>
       Count(log, "DM_DEV_REMOVE") =
         (IF Succeeded(log, "open_control") THEN 1 ELSE 0)

C16_Witness ==
  /\ Returned("setup") /\ Failed(log, "DM_TABLE_LOAD")
  /\ Count(log, "DM_TABLE_LOAD") = 1
  /\ Failed(log, "DM_DEV_REMOVE") /\ Count(log, "DM_DEV_REMOVE") = 1

\* C17: in a rollback the probe handle, if it was opened, is closed before
\* the Remove request is issued, the control handle is closed after it, and
\* then Setup returns.
C17_RollbackOrder ==
  curOp = "setup" =>
    \A i \in RemoveEvents(log) :
      /\ Succeeded(log, "open_upper") =>
           \E j \in 1..(i - 1) : log[j].op = "close_check"
      /\ \A j \in DOMAIN log : log[j].op = "close_control" => j = i + 1
      /\ pc = "idle" =>
           /\ Len(log) = i + 1
           /\ log[i + 1].op = "close_control"

C17_Witness ==
  /\ Returned("setup") /\ Failed(log, "read_upper")
  /\ \E i \in RemoveEvents(log) :
       /\ log[i - 1].op = "close_check"
       /\ log[i + 1].op = "close_control"

\* C18: when the rollback Remove request fails, Setup still returns failure
\* with the error of the step that failed, the same error as when the
\* Remove request succeeds.
C18_RollbackFailureNotEscalated ==
  (Returned("setup") /\ Count(log, "DM_DEV_REMOVE") = 1) =>
    /\ ~res
    /\ \E op \in RollbackSteps \cup {"snprintf"} :
         /\ Failed(log, op)
         /\ err = StepError(op)
    /\ Failed(log, "DM_DEV_REMOVE") => err # "Failed to remove dm device"

C18_Witness ==
  /\ Returned("setup") /\ Failed(log, "DM_DEV_REMOVE")
  /\ Failed(log, "DM_DEV_SUSPEND")
  /\ ~res /\ err = "Failed to resume dm device"

\* C19: while the host device of A is active and A's upper_dev is set, no
\* step of a call made on B changes the host device or A; a Setup on B
\* fails at Create.
C19_OtherDeviceUntouched ==
  [][ ( /\ curOp' # "none" /\ self' = "B"
        /\ host.state = "active" /\ host.owner = "A"
        /\ Obj("A").upper_dev # NULL ) =>
      /\ host' = host
      /\ ObjNext("A") = Obj("A")
      /\ pc = "s_create" => (pc' = "s_out" /\ ~res') ]_vars

C19_Witness ==
  /\ "B" \in DOMAIN objs /\ self = "B"
  /\ Returned("remove") /\ Failed(log, "DM_DEV_REMOVE")
  /\ host.state = "active" /\ host.uuid = <<"uuid-A", 36>>
  /\ Obj("A").upper_dev # NULL

C19_WitnessCreate ==
  /\ "B" \in DOMAIN objs /\ self = "B"
  /\ Returned("setup") /\ Failed(log, "DM_DEV_CREATE")
  /\ host.state = "active" /\ host.uuid = <<"uuid-A", 36>>
====
